---- MODULE Spec2Model ----
(***************************************************************************)
(* Giveaway lifecycle of the Jupiter bot (src/main.py): the setup view     *)
(* that assembles and posts a giveaway, the join button, the periodic      *)
(* check_giveaways sweep with end_giveaway, and giveaway_claim.            *)
(*                                                                         *)
(* A giveaway is a Python dict owned by a GiveawaySetupView                *)
(* (self.giveaway_data); giveaways_data maps a giveaway id to a REFERENCE  *)
(* to that dict (main.py:2306), so the model keeps the dicts in `views`    *)
(* and lets giveaways_data hold pairs <<id, view>>.                        *)
(*                                                                         *)
(* Also modelled: the premium slot records (update_user_slots, /addslots,  *)
(* /removeslots, the slot a premium auction uses) and the invite tracker   *)
(* (handle_member_join_invite_tracking, handle_member_leave_...). Each     *)
(* subsystem has a specification of its own over the shared variables.     *)
(***************************************************************************)
EXTENDS Integers, Sequences, FiniteSets, TLC

\* ------------------------------------------------------------------ bounds
MaxTicks    == 1      \* clock steps taken by the model
MaxWinners  == 2      \* largest "Number of Winners" typed into the modal
MaxEntries  == 2      \* largest "Number of Entries" of an extra-entry rule
MaxSlots    == 2      \* largest amount of /addslots, and most manual slots of a member
MaxCreating == 2      \* premium auctions of one seller being created at once
MaxUses     == 2      \* most uses of one invite

HourSeconds == 3600   \* duration_hours * 3600

Durations == {0, 1}          \* "Duration (hours)" typed into the modal (0: rejected)
Levels == {0, 1}             \* levels of users (calculate_level of their xp)

Views == {"v1", "v2"}        \* GiveawaySetupView instances
GiveawayIds == {1, 2}        \* the uuid4 values create_giveaway_message hands out, in order
Users == {"A", "B"}          \* interaction.user.id values
Roles == {"r1"}              \* role ids of the guild

\* ------------------------------------------------------------------- state
VARIABLES
    now,             \* int(time.time())
    views,           \* [Views -> giveaway dict]: GiveawaySetupView.giveaway_data
    pending,         \* create_giveaway_message calls suspended in followup.send
    giveaways_data,  \* insertion-ordered dict id -> dict, as a sequence of <<id, view>>
    nextId,          \* the next fresh uuid4
    sweep,           \* the check_giveaways loop task
    last             \* outcome of the step just taken when it was a join or an end

giveawayVars == <<now, views, pending, giveaways_data, nextId, sweep>>

VARIABLES
    member_roles,    \* [Users -> SUBSET Roles]: member.roles, the slot roles a member holds
    premium_slots,   \* [Users -> record]: premium_slots[user_id]
    creating,        \* [Users -> Nat]: create_auction_thread calls past their slot check
    bot_config       \* BOT_CONFIG["slot_roles"]: the type of its keys, and bot_config.json

slotVars == <<member_roles, premium_slots, creating, bot_config>>

VARIABLES
    in_guild,        \* the members of the guild
    joined,          \* members whose on_member_join event has not been handled yet
    invite_uses,     \* [Codes -> Nat]: invite.uses as Discord counts them
    invite_data,     \* invite_data: the cached invites and the "members" records
    handlers         \* per member: where its join handler is, and its guild.invites()

inviteVars == <<in_guild, joined, invite_uses, invite_data, handlers>>

\* what the giveaway handlers never touch
outsideGiveaways == <<slotVars, inviteVars>>

vars == <<now, views, pending, giveaways_data, nextId, sweep, last, slotVars, inviteVars>>

\* ----------------------------------------------------------------- helpers
Min(a, b) == IF a < b THEN a ELSE b

Range(s) == {s[i] : i \in 1..Len(s)}

NoDup(s) == \A i, j \in 1..Len(s) : s[i] = s[j] => i = j

Contains(s, x) == \E i \in 1..Len(s) : s[i] = x

RegisteredIds == {giveaways_data[i][1] : i \in 1..Len(giveaways_data)}

\* giveaways_data.get(gid): the view whose dict is registered under gid
IndexOf(gid) == CHOOSE i \in 1..Len(giveaways_data) : giveaways_data[i][1] = gid

DictOf(gid) == giveaways_data[IndexOf(gid)][2]

RegisteredViews == {giveaways_data[i][2] : i \in 1..Len(giveaways_data)}

\* GiveawaySetupView.__init__: the dict a new setup view starts with
\* ("winners", "duration_hours", "end_time": 0 stands for a missing key;
\*  winners_list / claimed_winners: <<>> stands for a missing key)
NewGiveawayData ==
    [ participants      |-> [u \in Users |-> 0],
      status            |-> "creating",
      required_roles    |-> {},
      extra_entry_roles |-> <<>>,
      bypass_roles      |-> {},
      required_level    |-> 0,
      duration_hours    |-> 0,
      winners           |-> 0,
      end_time          |-> 0,
      winners_list      |-> <<>>,
      claimed_winners   |-> <<>> ]

\* keys of giveaway["participants"]
Participants(g) == {u \in Users : g.participants[u] > 0}


\* ------------------------------------------------------- join_giveaway
\* the first rule of extra_entry_roles whose role the user holds (for ... break)
MatchingRules(g, roles) ==
    {i \in 1..Len(g.extra_entry_roles) : g.extra_entry_roles[i].role_id \in roles}

FirstMatch(g, roles) ==
    CHOOSE i \in MatchingRules(g, roles) : \A j \in MatchingRules(g, roles) : i <= j

MissingRequiredRole(g, roles) ==
    g.required_roles # {} /\ g.required_roles \cap roles = {}

\* the level check without its bypass roles
LevelTooLow_no_bypass(g, roles, level) ==
    g.required_level > 0 /\ level < g.required_level

LevelTooLow(g, roles, level) ==
    /\ g.required_level > 0
    /\ level < g.required_level
    /\ IF g.bypass_roles # {} THEN g.bypass_roles \cap roles = {} ELSE TRUE

\* the response of the join button
JoinResult(g, u, roles, level) ==
    IF g.status # "active" THEN "NotActive"
    ELSE IF MissingRequiredRole(g, roles) THEN "MissingRequiredRole"
    ELSE IF LevelTooLow(g, roles, level) THEN "LevelTooLow"
    ELSE "Joined"

\* a join that writes back a participants dict built from scratch: the entries of
\* the users who joined before are lost
AddParticipant_overwrite(g, u, roles) ==
    [g EXCEPT !.participants =
        [w \in Users |-> IF w # u THEN 0
                         ELSE IF MatchingRules(g, roles) # {}
                              THEN g.extra_entry_roles[FirstMatch(g, roles)].entries
                              ELSE 1]]

\* "Add user to participants" and "Check for extra entries"
AddParticipant(g, u, roles) ==
    LET e0 == IF g.participants[u] = 0 THEN 1 ELSE g.participants[u]
        e1 == IF MatchingRules(g, roles) # {}
              THEN g.extra_entry_roles[FirstMatch(g, roles)].entries
              ELSE e0
    IN  [g EXCEPT !.participants[u] = e1]

\* join_giveaway without its `giveaway["status"] != "active"` guard
join_giveaway_unguarded(g, u, roles, level) ==
    IF MissingRequiredRole(g, roles) \/ LevelTooLow(g, roles, level)
    THEN g
    ELSE AddParticipant(g, u, roles)

\* the dict after the join button was pressed by user u
join_giveaway(g, u, roles, level) ==
    IF JoinResult(g, u, roles, level) = "Joined"
    THEN AddParticipant(g, u, roles)
    ELSE g

\* -------------------------------------------------------- end_giveaway
RECURSIVE Weighted(_, _)
\* weighted_participants: every participant repeated data["entries"] times
Weighted(p, us) ==
    IF us = {} THEN <<>>
    ELSE LET u == CHOOSE x \in us : TRUE
         IN  [i \in 1..p[u] |-> u] \o Weighted(p, us \ {u})

\* a pool built from every member of the guild, one entry for those who never joined
weighted_participants_everyone(g) ==
    Weighted([u \in Users |-> IF g.participants[u] = 0 THEN 1 ELSE g.participants[u]],
             Users)

weighted_participants(g) == Weighted(g.participants, Participants(g))

winner_count(g) == Min(g.winners, Cardinality(Participants(g)))

\* random.sample(population, k): k distinct POSITIONS of the population, in order
Samples(n, k) ==
    {s \in [1..k -> 1..n] : \A i, j \in 1..k : s[i] = s[j] => i = j}

RECURSIVE Dedup(_, _)
\* "Remove duplicates": keeps the first occurrence of each winner
Dedup(s, seen) ==
    IF s = <<>> THEN <<>>
    ELSE IF Head(s) \in seen THEN Dedup(Tail(s), seen)
    ELSE <<Head(s)>> \o Dedup(Tail(s), seen \cup {Head(s)})

unique_winners(g, draw) ==
    LET pool == weighted_participants(g)
    IN  Dedup([i \in 1..Len(draw) |-> pool[draw[i]]], {})

\* the outcomes random.sample can have for this giveaway
Draws(g) ==
    IF g.status = "active" /\ Participants(g) # {}
    THEN Samples(Len(weighted_participants(g)), winner_count(g))
    ELSE {<<>>}

\* end_giveaway without its `giveaway["status"] != "active"` guard: draws again
end_giveaway_unguarded(g, chanOk, draw) ==
    LET ended == [g EXCEPT !.status = "ended"]
    IN  IF ~chanOk THEN ended
        ELSE IF Participants(g) = {} THEN ended
        ELSE [ended EXCEPT !.winners_list = unique_winners(g, draw)]

\* end_giveaway marking the giveaway ended only after the announcement (not before
\* the draw): the dict at the await still says "active"
end_giveaway_late_status(g, chanOk, draw) ==
    IF g.status # "active" THEN g
    ELSE IF ~chanOk THEN [g EXCEPT !.status = "ended"]
    ELSE IF Participants(g) = {} THEN g
    ELSE [g EXCEPT !.winners_list = unique_winners(g, draw)]

\* the dict after end_giveaway ran up to its first await (or returned);
\* chanOk: guild.get_channel found the channel; draw: what random.sample chose
end_giveaway(g, chanOk, draw) ==
    IF g.status # "active" THEN g
    ELSE LET ended == [g EXCEPT !.status = "ended"]
         IN  IF ~chanOk THEN ended
             ELSE IF Participants(g) = {} THEN ended
             ELSE [ended EXCEPT !.winners_list = unique_winners(g, draw)]

\* ------------------------------------------------------ giveaway_claim
giveaway_claim(g, u) ==
    IF g.status = "ended" /\ g.winners_list # <<>> /\ Contains(g.winners_list, u)
       /\ ~Contains(g.claimed_winners, u)
    THEN [g EXCEPT !.claimed_winners = Append(@, u)]
    ELSE g

\* ------------------------------------------------------- premium slots
\* premium_slots[user_id]; a missing record reads as zeros everywhere it is read
NoSlots == [total_slots |-> 0, used_slots |-> 0, manual_slots |-> 0]

\* BOT_CONFIG["slot_roles"]: every slot role of the model gives this many slots
RoleSlots == 1

\* BOT_CONFIG as the module builds it: slot_roles keyed by int role ids, and no
\* bot_config.json written yet
FreshConfig == [keys |-> "int", saved |-> FALSE]

\* calculate_user_slots: `role.id in BOT_CONFIG["slot_roles"]` compares the int
\* role.id with the keys of the dict; keys read back from JSON are strings
calculate_user_slots(roles, cfg) ==
    IF cfg.keys = "int" THEN Cardinality(roles) * RoleSlots ELSE 0

\* a recompute that builds the record anew and forgets the manual slots
update_user_slots_reset_manual(rec, calculated_slots) ==
    [total_slots  |-> calculated_slots,
     used_slots   |-> IF rec.used_slots > calculated_slots
                      THEN calculated_slots ELSE rec.used_slots,
     manual_slots |-> 0]

\* update_user_slots, given calculate_user_slots(member)
update_user_slots(rec, calculated_slots) ==
    LET total == calculated_slots + rec.manual_slots
    IN  [rec EXCEPT !.total_slots = total,
                    !.used_slots  = IF @ > total THEN total ELSE @]

\* /addslots
addslots(rec, calculated_slots, amount) ==
    IF amount <= 0 THEN rec
    ELSE [update_user_slots(rec, calculated_slots) EXCEPT
             !.manual_slots = @ + amount, !.total_slots = @ + amount]

\* /removeslots
removeslots(rec, calculated_slots, amount) ==
    IF amount <= 0 THEN rec
    ELSE LET r == update_user_slots(rec, calculated_slots)
             remove_amount == Min(amount, r.manual_slots)
             total == r.total_slots - remove_amount
         IN  IF remove_amount = 0 THEN r
             ELSE [r EXCEPT !.manual_slots = @ - remove_amount,
                            !.total_slots  = total,
                            !.used_slots   = IF @ > total THEN total ELSE @]

\* ------------------------------------------------------ invite tracking
Codes == {"cA", "cB"}        \* invite codes of the guild

\* invite.inviter
Inviter(c) == IF c = "cA" THEN "A" ELSE "B"

\* invite_data["members"][id] of an id that is no key of the dict (known = FALSE).
\* has_total: the dict has "total_invites"; invited_by "none": it has no "invited_by"
NoMember ==
    [known |-> FALSE, has_total |-> FALSE, total_invites |-> 0, left_invites |-> 0,
     invited_by |-> "none", invite_code |-> "none", join_timestamp |-> 0]

\* invite_data after "Sync Invites" (cache_guild_invites) on a guild none of whose
\* invites was used yet: "invites" holds every code (cached: its keys), no "members"
NewInviteData ==
    [invites |-> [c \in Codes |-> 0], has_invites |-> TRUE, cached |-> Codes,
     has_members |-> FALSE, members |-> [u \in Users |-> NoMember]]

\* invite_data of a bot whose invite_data.json does not exist: load_json gives {}
EmptyInviteData ==
    [NewInviteData EXCEPT !.has_invites = FALSE, !.cached = {}]

\* cached_invites.get(invite.code, {}).get("uses", 0)
cached_uses(d, c) == IF d.has_invites /\ c \in d.cached THEN d.invites[c] ELSE 0

\* the invites with more uses than the cache says; the handler takes the first one
\* of the list Discord returns
UsedCandidates(d, uses) == {c \in Codes : uses[c] > cached_uses(d, c)}

\* cache_guild_invites(guild), with `uses` what guild.invites() returned
cache_guild_invites(d, uses) ==
    [d EXCEPT !.has_invites = TRUE, !.cached = Codes, !.invites = uses]

\* "Cache new invite states": invite_data["invites"][invite.code] = {...} for every
\* invite of the list; without the key "invites" the first assignment raises KeyError
refresh_cache(d, uses) ==
    IF d.has_invites THEN [d EXCEPT !.cached = Codes, !.invites = uses] ELSE d

\* invite_data["invites"][used_invite.code]["uses"] = used_invite.uses raises
\* KeyError when the code (or "invites") is no key
uncached(d, c) == ~(d.has_invites /\ c \in d.cached)

\* invite_data["members"][inviter_id]["total_invites"] += 1 raises KeyError when the
\* inviter's dict is an invitee record
no_total(d, c) == d.members[Inviter(c)].known /\ ~d.members[Inviter(c)].has_total

\* handle_member_join_invite_tracking from "Update inviter's stats" to the first
\* save_json, with inviter_id bound: d already has "members"
attribute_join(d, m, c, t) ==
    LET x == Inviter(c)
    IN  IF no_total(d, c)
        THEN d           \* KeyError at ["total_invites"] += 1, caught and logged
        ELSE LET d2 == [d EXCEPT !.members[x] =
                           [@ EXCEPT !.known = TRUE, !.has_total = TRUE,
                                     !.total_invites = @ + 1]]
             IN  IF d2.members[m].has_total THEN d2
                 ELSE [d2 EXCEPT !.members[m] =
                         [NoMember EXCEPT !.known = TRUE, !.invited_by = x,
                                          !.invite_code = c, !.join_timestamp = t]]

\* the handler from `if used_invite and inviter:` to its first await
\* (update_member_invite_roles), or to the exception that ends it, for invite c.
\* `inviter_id = str(inviter.id)` is inside `if "members" not in invite_data:`, so
\* with "members" present the next line raises UnboundLocalError, which the
\* handler's `except Exception` logs.
record_join(d, m, c, uses, t) ==
    IF uncached(d, c) THEN d
    ELSE LET d1 == [d EXCEPT !.invites[c] = uses[c]]
         IN  IF d.has_members THEN d1
             ELSE attribute_join([d1 EXCEPT !.has_members = TRUE], m, c, t)

\* whether the handler, having found invite c used, ends in its `except Exception`
join_raises(d, c) == uncached(d, c) \/ d.has_members

\* the handler with `inviter_id = str(inviter.id)` run on every call
track_join_bound(d, m, c, uses, t) ==
    IF c = "none" THEN refresh_cache(d, uses)
    ELSE IF uncached(d, c) THEN d
    ELSE LET d1 == [d EXCEPT !.invites[c] = uses[c], !.has_members = TRUE]
         IN  IF no_total(d1, c) THEN d1
             ELSE refresh_cache(attribute_join(d1, m, c, t), uses)

\* handle_member_join_invite_tracking(member) for member m run without a pause, with
\* `uses` what guild.invites() returned, c the invite found used ("none": none) and
\* t the time
track_join(d, m, c, uses, t) ==
    IF c = "none" THEN refresh_cache(d, uses)
    ELSE IF join_raises(d, c) THEN record_join(d, m, c, uses, t)
    ELSE refresh_cache(record_join(d, m, c, uses, t), uses)

\* a leave handler that also takes the invite back from total_invites
track_leave_decrement(d, m) ==
    LET x == d.members[m].invited_by
    IN  IF x # "none" /\ d.members[x].known
        THEN [d EXCEPT !.members[x].left_invites = @ + 1,
                       !.members[x].total_invites = @ - 1]
        ELSE d

\* handle_member_leave_invite_tracking(member) for member m
track_leave(d, m) ==
    LET x == d.members[m].invited_by
    IN  IF x # "none" /\ d.members[x].known
        THEN [d EXCEPT !.members[x].left_invites = @ + 1]
        ELSE d

\* BOT_CONFIG["invite_roles"] as the "Configure Invite Roles" panel stored it:
\* a role for one invite and a role for two
InviteRoles == {[threshold |-> 1, role_id |-> "one_invite"],
                [threshold |-> 2, role_id |-> "two_invites"]}

\* update_member_invite_roles(member) for member x: target_role_id, "Find the
\* highest role they qualify for" ("none": None)
update_member_invite_roles(d, x) ==
    LET invite_count == d.members[x].total_invites
        met == {r \in InviteRoles : invite_count >= r.threshold /\ r.threshold > 0}
    IN  IF met = {} THEN "none"
        ELSE (CHOOSE r \in met : \A q \in met : q.threshold <= r.threshold).role_id

\* ----------------------------------------------------------------- Init
\* `last` after a step that is neither a join nor a call of end_giveaway
Other == [op |-> "other", res |-> "none"]

\* The bot is connected and on_ready has started the loops; two setup views
\* have been opened with /giveaway and nothing has been typed into them yet.
IdleSweep == [running |-> TRUE, pc |-> "idle", queue |-> <<>>, current_time |-> 0]

\* no handle_member_join_invite_tracking is under way for the member
IdleHandler == [pc |-> "idle", uses |-> [c \in Codes |-> 0]]

Init ==
    /\ now = 0
    /\ views = [v \in Views |-> NewGiveawayData]
    /\ pending = {}
    /\ giveaways_data = <<>>
    /\ nextId = 1
    /\ sweep = IdleSweep
    /\ last = Other
    /\ member_roles = [u \in Users |-> {}]
    /\ premium_slots = [u \in Users |-> NoSlots]
    /\ creating = [u \in Users |-> 0]
    /\ bot_config = FreshConfig
    /\ in_guild = Users
    /\ joined = {}
    /\ invite_uses = [c \in Codes |-> 0]
    /\ invite_data = NewInviteData
    /\ handlers = [m \in Users |-> IdleHandler]

\* -------------------------------------------------------------- actions
\* time passes (one hour per step)
Tick ==
    /\ now < MaxTicks * HourSeconds
    /\ now' = now + HourSeconds
    /\ last' = Other
    /\ UNCHANGED <<views, pending, giveaways_data, nextId, sweep>>
    /\ UNCHANGED outsideGiveaways

\* GiveawayBasicModal.on_submit
basic_info(g, d, w) ==
    IF d <= 0 \/ w <= 0 THEN g
    ELSE [g EXCEPT !.duration_hours = d, !.winners = w]

BasicInfo(v, d, w) ==
    /\ views' = [views EXCEPT ![v] = basic_info(@, d, w)]
    /\ last' = Other
    /\ UNCHANGED <<now, pending, giveaways_data, nextId, sweep>>
    /\ UNCHANGED outsideGiveaways

\* GiveawayExtraEntryModal.on_submit
extra_entry(g, r, e) ==
    IF e <= 0 THEN g
    ELSE [g EXCEPT !.extra_entry_roles =
            Append(SelectSeq(@, LAMBDA x : x.role_id # r), [role_id |-> r, entries |-> e])]

ExtraEntry(v, r, e) ==
    /\ views' = [views EXCEPT ![v] = extra_entry(@, r, e)]
    /\ last' = Other
    /\ UNCHANGED <<now, pending, giveaways_data, nextId, sweep>>
    /\ UNCHANGED outsideGiveaways

\* create_giveaway_message: self.giveaway_data.update({... "end_time", "status" ...})
create_giveaway_message(g, t) ==
    [g EXCEPT !.end_time = t + g.duration_hours * HourSeconds, !.status = "active"]

\* GiveawaySetupView.create_giveaway and create_giveaway_message up to
\* `await interaction.followup.send(...)`
CreateBegin(v) ==
    /\ nextId \in GiveawayIds
    /\ IF views[v].winners = 0
       THEN /\ last' = Other
            /\ UNCHANGED <<views, pending, nextId>>
       ELSE /\ views' = [views EXCEPT ![v] = create_giveaway_message(@, now)]
            /\ pending' = pending \cup {<<nextId, v>>}
            /\ nextId' = nextId + 1
            /\ last' = Other
    /\ UNCHANGED <<now, giveaways_data, sweep>>
    /\ UNCHANGED outsideGiveaways

\* create_giveaway_message after the send: registers the view's dict under the id
CreateFinish(gid, v, sent) ==
    /\ <<gid, v>> \in pending
    /\ pending' = pending \ {<<gid, v>>}
    /\ giveaways_data' = IF sent THEN Append(giveaways_data, <<gid, v>>) ELSE giveaways_data
    /\ last' = Other
    /\ UNCHANGED <<now, views, nextId, sweep>>
    /\ UNCHANGED outsideGiveaways

\* GiveawayJoinView.join_giveaway: user u, holding `roles` at level `level`,
\* presses the join button of giveaway gid
Join(gid, u, roles, level) ==
    /\ gid \in RegisteredIds
    /\ views[DictOf(gid)].required_level = 0 => level = 0   \* the level is not looked up
    /\ views' = [views EXCEPT ![DictOf(gid)] = join_giveaway(@, u, roles, level)]
    /\ last' = [op |-> "join", res |-> JoinResult(views[DictOf(gid)], u, roles, level)]
    /\ UNCHANGED <<now, pending, giveaways_data, nextId, sweep>>
    /\ UNCHANGED outsideGiveaways

\* /giveaway_claim for user u: every giveaway of giveaways_data is visited
Claim(u) ==
    /\ views' = [v \in Views |->
                    IF v \in RegisteredViews THEN giveaway_claim(views[v], u) ELSE views[v]]
    /\ last' = Other
    /\ UNCHANGED <<now, pending, giveaways_data, nextId, sweep>>
    /\ UNCHANGED outsideGiveaways

\* the condition of check_giveaways for one giveaway (main.py:7619)
Due(g, t) == g.status = "active" /\ t >= g.end_time

RECURSIVE RunLoop(_, _, _)
\* The for loop of check_giveaways over the ids q of its snapshot, at time t, with the
\* dicts vs, run to its next suspension: the set of its possible outcomes. Per due
\* giveaway: bot.get_guild finds no guild (skipped), or end_giveaway finds no channel
\* (returns at once), or end_giveaway reaches `await channel.send`. Nothing else runs
\* in between: there is no await before that point.
RunLoop(vs, q, t) ==
    IF q = <<>> THEN {[views |-> vs, queue |-> <<>>, pc |-> "idle"]}
    ELSE LET gid == Head(q)
             v   == DictOf(gid)
             g   == vs[v]
         IN  IF ~Due(g, t) THEN RunLoop(vs, Tail(q), t)
             ELSE RunLoop(vs, Tail(q), t)
                  \cup RunLoop([vs EXCEPT ![v] = end_giveaway(g, FALSE, <<>>)], Tail(q), t)
                  \cup {[views |-> [vs EXCEPT ![v] = end_giveaway(g, TRUE, draw)],
                         queue |-> Tail(q), pc |-> "send"] : draw \in Draws(g)}

\* check_giveaways wakes up (every minute): current_time, list(giveaways_data.items()),
\* and the loop up to its first await
SweepStart ==
    /\ sweep.running /\ sweep.pc = "idle"
    /\ \E o \in RunLoop(views, [i \in 1..Len(giveaways_data) |-> giveaways_data[i][1]], now) :
         /\ views' = o.views
         /\ sweep' = IF o.pc = "idle" THEN IdleSweep
                      ELSE [running |-> TRUE, pc |-> "send", queue |-> o.queue,
                            current_time |-> now]
    /\ last' = Other
    /\ UNCHANGED <<now, pending, giveaways_data, nextId>>
    /\ UNCHANGED outsideGiveaways

\* `await channel.send(...)` of end_giveaway returns: the loop goes on to its next await
SweepSent ==
    /\ sweep.running /\ sweep.pc = "send"
    /\ \E o \in RunLoop(views, sweep.queue, sweep.current_time) :
         /\ views' = o.views
         /\ sweep' = IF o.pc = "idle" THEN IdleSweep ELSE [sweep EXCEPT !.queue = o.queue]
    /\ last' = Other
    /\ UNCHANGED <<now, pending, giveaways_data, nextId>>
    /\ UNCHANGED outsideGiveaways

\* `await channel.send(...)` raises (discord.Forbidden, HTTPException): the exception
\* leaves end_giveaway and check_giveaways, which catch nothing, and ends the loop task
SweepSendFails ==
    /\ sweep.running /\ sweep.pc = "send"
    /\ sweep' = [IdleSweep EXCEPT !.running = FALSE]
    /\ last' = Other
    /\ UNCHANGED <<now, views, pending, giveaways_data, nextId>>
    /\ UNCHANGED outsideGiveaways

\* on_ready fires again (reconnect): reset_daily.start() raises RuntimeError because
\* reset_daily is running, so check_giveaways.start() is not reached
OnReady ==
    /\ last' = Other
    /\ UNCHANGED <<now, views, pending, giveaways_data, nextId, sweep>>
    /\ UNCHANGED outsideGiveaways

\* end_giveaway(gid, guild) called for a giveaway whose end time has passed, whatever
\* its status: the function's own guard (main.py:7626) is all that stands between
\* the caller and a second draw
EndCall(gid, chanOk) ==
    /\ gid \in RegisteredIds
    /\ now >= views[DictOf(gid)].end_time
    /\ LET v == DictOf(gid)
           g == views[v]
       IN  \E draw \in (IF chanOk THEN Draws(g) ELSE {<<>>}) :
             /\ views' = [views EXCEPT ![v] = end_giveaway(g, chanOk, draw)]
             /\ last' = [op |-> "end",
                         res |-> IF g.status # "active" THEN "already_ended" ELSE "ended"]
    /\ UNCHANGED <<now, pending, giveaways_data, nextId, sweep>>
    /\ UNCHANGED outsideGiveaways

\* what the owner of setup view v can do with it
Setup(v) ==
    \/ \E d \in Durations, w \in 0..MaxWinners : BasicInfo(v, d, w)
    \/ \E r \in Roles, e \in 0..MaxEntries : ExtraEntry(v, r, e)
    \/ CreateBegin(v)
    \/ \E gid \in GiveawayIds, sent \in BOOLEAN : CreateFinish(gid, v, sent)

\* everything that happens without a setup view
Run ==
    \/ Tick
    \/ \E gid \in GiveawayIds, u \in Users, roles \in SUBSET Roles, level \in Levels :
          Join(gid, u, roles, level)
    \/ SweepStart
    \/ SweepSent
    \/ SweepSendFails
    \/ OnReady

\* one setup view in use: giveaways are created from v1 only
Next ==
    \/ Setup("v1")
    \/ Run
    \/ \E u \in Users : Claim(u)

Spec == Init /\ [][Next]_vars

\* Spec, with end_giveaway also called by callers other than the sweep's condition
NextEnd ==
    \/ Next
    \/ \E gid \in GiveawayIds, chanOk \in BOOLEAN : EndCall(gid, chanOk)

SpecEnd == Init /\ [][NextEnd]_vars

\* Two setup views in use, each with its own dict and each used for one giveaway
\* only ("Create Giveaway" pressed once); nobody joins (end_giveaway announces
\* "No participants joined"), no extra-entry rules and no claims.
\* The loop runs every minute while its task lives, an awaited send returns or raises,
\* and a due giveaway whose guild can be resolved is not passed over for ever.
SetupPlain(v) ==
    \/ \E d \in Durations, w \in 0..MaxWinners : BasicInfo(v, d, w)
    \/ views[v].status = "creating" /\ CreateBegin(v)
    \/ \E gid \in GiveawayIds, sent \in BOOLEAN : CreateFinish(gid, v, sent)

NextTwo ==
    \/ \E v \in Views : SetupPlain(v)
    \/ Tick
    \/ SweepStart
    \/ SweepSent
    \/ SweepSendFails
    \/ OnReady

\* a sweep step that ends the giveaway of dict v
SweepEnds(v) ==
    /\ SweepStart \/ SweepSent
    /\ views[v].status = "active"
    /\ views'[v].status = "ended"

FairSpec ==
    /\ Init /\ [][NextTwo]_vars
    /\ WF_vars(SweepStart)
    /\ WF_vars(SweepSent \/ SweepSendFails)
    /\ \A v \in Views : SF_vars(SweepEnds(v))

\* ------------------------------------------------- giveaway requirements
AllRoles == {"r1", "r2"}     \* roles a member can hold and a requirement can name
LevelInputs == {-1, 0, 1}    \* "Required Level" typed into the modal (-1: rejected)

\* GiveawayRoleModal.on_submit for role_type "required" / "bypass"
role_modal(g, role_type, r) ==
    IF role_type = "required"
    THEN [g EXCEPT !.required_roles = @ \cup {r}]
    ELSE [g EXCEPT !.bypass_roles = @ \cup {r}]

\* the Requirements button needs "name" (the basic info) in the dict
RoleModal(v, role_type, r) ==
    /\ views[v].winners > 0
    /\ views' = [views EXCEPT ![v] = role_modal(@, role_type, r)]
    /\ last' = Other
    /\ UNCHANGED <<now, pending, giveaways_data, nextId, sweep>>
    /\ UNCHANGED outsideGiveaways

\* GiveawayLevelModal.on_submit
level_modal(g, level) ==
    IF level < 0 THEN g ELSE [g EXCEPT !.required_level = level]

LevelModal(v, level) ==
    /\ views[v].winners > 0
    /\ views' = [views EXCEPT ![v] = level_modal(@, level)]
    /\ last' = Other
    /\ UNCHANGED <<now, pending, giveaways_data, nextId, sweep>>
    /\ UNCHANGED outsideGiveaways

\* One giveaway with one winner, all its requirements, and members pressing the
\* join button with any roles and level; no clock and no sweep.
NextJoin ==
    \/ BasicInfo("v1", 1, 1)
    \/ \E role_type \in {"required", "bypass"}, r \in AllRoles : RoleModal("v1", role_type, r)
    \/ \E level \in LevelInputs : LevelModal("v1", level)
    \/ \E r \in Roles, e \in 0..MaxEntries : ExtraEntry("v1", r, e)
    \/ views["v1"].status = "creating" /\ CreateBegin("v1")
    \/ \E gid \in GiveawayIds : CreateFinish(gid, "v1", TRUE)
    \/ \E gid \in GiveawayIds, u \in Users, roles \in SUBSET AllRoles, level \in Levels :
          Join(gid, u, roles, level)

SpecJoin == Init /\ [][NextJoin]_vars

\* One giveaway with extra-entry rules for any of the roles, entered in any order,
\* and members pressing the join button again and again with any roles.
NextWeights ==
    \/ BasicInfo("v1", 1, 1)
    \/ \E r \in AllRoles, e \in 0..MaxEntries : ExtraEntry("v1", r, e)
    \/ views["v1"].status = "creating" /\ CreateBegin("v1")
    \/ \E gid \in GiveawayIds : CreateFinish(gid, "v1", TRUE)
    \/ \E gid \in GiveawayIds, u \in Users, roles \in SUBSET AllRoles :
          Join(gid, u, roles, 0)

SpecWeights == Init /\ [][NextWeights]_vars

\* -------------------------------------------------- premium slot actions
\* `last` after update_user_slots ran for member u (or for "all") and nothing else
Recomputed(u) == [op |-> "update_user_slots", res |-> u]

\* on_member_update: the member's roles changed to `roles`
MemberUpdate(u, roles) ==
    /\ roles # member_roles[u]
    /\ member_roles' = [member_roles EXCEPT ![u] = roles]
    /\ premium_slots' = [premium_slots EXCEPT ![u] =
            update_user_slots(@, calculate_user_slots(roles, bot_config))]
    /\ last' = Recomputed(u)
    /\ UNCHANGED <<creating, bot_config>>
    /\ UNCHANGED <<giveawayVars, inviteVars>>

\* /viewslots for member u: update_user_slots(target_user)
ViewSlots(u) ==
    /\ premium_slots' = [premium_slots EXCEPT ![u] =
            update_user_slots(@, calculate_user_slots(member_roles[u], bot_config))]
    /\ last' = Recomputed(u)
    /\ UNCHANGED <<member_roles, creating, bot_config>>
    /\ UNCHANGED <<giveawayVars, inviteVars>>

\* SlotConfigView "Update All Members"
UpdateAllMembers ==
    /\ premium_slots' = [u \in Users |->
            update_user_slots(premium_slots[u],
                              calculate_user_slots(member_roles[u], bot_config))]
    /\ last' = Recomputed("all")
    /\ UNCHANGED <<member_roles, creating, bot_config>>
    /\ UNCHANGED <<giveawayVars, inviteVars>>

AddSlots(u, amount) ==
    /\ premium_slots[u].manual_slots + amount <= MaxSlots
    /\ premium_slots' = [premium_slots EXCEPT ![u] =
            addslots(@, calculate_user_slots(member_roles[u], bot_config), amount)]
    /\ last' = Other
    /\ UNCHANGED <<member_roles, creating, bot_config>>
    /\ UNCHANGED <<giveawayVars, inviteVars>>

RemoveSlots(u, amount) ==
    /\ premium_slots' = [premium_slots EXCEPT ![u] =
            removeslots(@, calculate_user_slots(member_roles[u], bot_config), amount)]
    /\ last' = Other
    /\ UNCHANGED <<member_roles, creating, bot_config>>
    /\ UNCHANGED <<giveawayVars, inviteVars>>

\* create_auction_thread of a premium auction of seller u, up to its first await:
\* "Check premium slots if needed"
CreateAuctionBegin(u) ==
    /\ creating[u] < MaxCreating
    /\ creating' = IF premium_slots[u].used_slots >= premium_slots[u].total_slots
                   THEN creating
                   ELSE [creating EXCEPT ![u] = @ + 1]
    /\ last' = Other
    /\ UNCHANGED <<member_roles, premium_slots, bot_config>>
    /\ UNCHANGED <<giveawayVars, inviteVars>>

\* create_auction_thread after the thread was created and the images uploaded
\* (ok), "Use premium slot if needed" and save_all(); or after an exception (~ok)
CreateAuctionFinish(u, ok) ==
    /\ creating[u] > 0
    /\ creating' = [creating EXCEPT ![u] = @ - 1]
    /\ premium_slots' = IF ok THEN [premium_slots EXCEPT ![u].used_slots = @ + 1]
                         ELSE premium_slots
    /\ bot_config' = IF ok THEN [bot_config EXCEPT !.saved = TRUE] ELSE bot_config
    /\ last' = Other
    /\ UNCHANGED member_roles
    /\ UNCHANGED <<giveawayVars, inviteVars>>

\* a configuration panel writes bot_config.json: save_json("bot_config.json", BOT_CONFIG)
SaveConfig ==
    /\ bot_config' = [bot_config EXCEPT !.saved = TRUE]
    /\ last' = Other
    /\ UNCHANGED <<member_roles, premium_slots, creating>>
    /\ UNCHANGED <<giveawayVars, inviteVars>>

\* The process is started again: BOT_CONFIG.update(load_json("bot_config.json")),
\* whose "slot_roles" has the keys json.dump wrote, strings; premium_slots comes
\* back as every handler saved it; auction creations under way are gone.
\* (No giveaway exists in the specification this action is part of.)
Restart ==
    /\ bot_config' = IF bot_config.saved THEN [bot_config EXCEPT !.keys = "str"]
                      ELSE bot_config
    /\ creating' = [u \in Users |-> 0]
    /\ last' = Other
    /\ UNCHANGED <<member_roles, premium_slots>>
    /\ UNCHANGED <<giveawayVars, inviteVars>>

NextSlots ==
    \/ \E u \in Users, roles \in SUBSET Roles : MemberUpdate(u, roles)
    \/ \E u \in Users : ViewSlots(u)
    \/ UpdateAllMembers
    \/ \E u \in Users, amount \in 0..MaxSlots : AddSlots(u, amount)
    \/ \E u \in Users, amount \in 0..MaxSlots : RemoveSlots(u, amount)
    \/ \E u \in Users : CreateAuctionBegin(u)
    \/ \E u \in Users, ok \in BOOLEAN : CreateAuctionFinish(u, ok)
    \/ SaveConfig
    \/ Restart

SpecSlots == Init /\ [][NextSlots]_vars

\* ----------------------------------------------- invite tracking actions
\* a member joins the guild through invite c: Discord counts the use and sends
\* on_member_join
MemberJoin(m, c) ==
    /\ m \notin in_guild
    /\ invite_uses[c] < MaxUses
    /\ in_guild' = in_guild \cup {m}
    /\ invite_uses' = [invite_uses EXCEPT ![c] = @ + 1]
    /\ joined' = joined \cup {m}
    /\ last' = Other
    /\ UNCHANGED <<invite_data, handlers, giveawayVars, slotVars>>

\* on_member_join(member): update_user_slots(member), then
\* handle_member_join_invite_tracking(member), which fetches guild.invites() and
\* finds invite c used (c = "none": no invite has more uses than cached)
OnMemberJoin(m, c) ==
    /\ m \in joined
    /\ IF UsedCandidates(invite_data, invite_uses) = {}
       THEN c = "none"
       ELSE c \in UsedCandidates(invite_data, invite_uses)
    /\ joined' = joined \ {m}
    /\ premium_slots' = [premium_slots EXCEPT ![m] =
            update_user_slots(@, calculate_user_slots(member_roles[m], bot_config))]
    /\ invite_data' = track_join(invite_data, m, c, invite_uses, now)
    /\ last' = Other
    /\ UNCHANGED <<in_guild, invite_uses, handlers, member_roles, creating, bot_config>>
    /\ UNCHANGED giveawayVars

\* a member leaves the guild: on_member_remove(member)
OnMemberRemove(m) ==
    /\ m \in in_guild
    /\ in_guild' = in_guild \ {m}
    /\ invite_data' = track_leave(invite_data, m)
    /\ last' = Other
    /\ UNCHANGED <<joined, invite_uses, handlers, giveawayVars, slotVars>>

NextInvites ==
    \/ Tick
    \/ \E m \in Users, c \in Codes : MemberJoin(m, c)
    \/ \E m \in Users, c \in Codes \cup {"none"} : OnMemberJoin(m, c)
    \/ \E m \in Users : OnMemberRemove(m)

SpecInvites == Init /\ [][NextInvites]_vars

\* ------------------------------------------------- claims after the end
\* time passes, for one hour more than Tick allows: long enough for a giveaway of
\* one hour that is created when another one has ended
TickOn ==
    /\ now < (MaxTicks + 1) * HourSeconds
    /\ now' = now + HourSeconds
    /\ last' = Other
    /\ UNCHANGED <<views, pending, giveaways_data, nextId, sweep>>
    /\ UNCHANGED outsideGiveaways

\* One setup view and giveaways of one hour with one winner and no requirements:
\* members join, the sweep ends the giveaway, winners claim.
NextClaim ==
    \/ BasicInfo("v1", 1, 1)
    \/ CreateBegin("v1")
    \/ \E gid \in GiveawayIds : CreateFinish(gid, "v1", TRUE)
    \/ \E gid \in GiveawayIds, u \in Users : Join(gid, u, {}, 0)
    \/ SweepStart
    \/ SweepSent
    \/ SweepSendFails
    \/ \E u \in Users : Claim(u)
    \/ TickOn

SpecClaim == Init /\ [][NextClaim]_vars

\* ------------------------------------------- the join handler, step by step
\* A bot that has never cached an invite: no invite_data.json
InitCache ==
    /\ now = 0
    /\ views = [v \in Views |-> NewGiveawayData]
    /\ pending = {}
    /\ giveaways_data = <<>>
    /\ nextId = 1
    /\ sweep = IdleSweep
    /\ last = Other
    /\ member_roles = [u \in Users |-> {}]
    /\ premium_slots = [u \in Users |-> NoSlots]
    /\ creating = [u \in Users |-> 0]
    /\ bot_config = FreshConfig
    /\ in_guild = Users
    /\ joined = {}
    /\ invite_uses = [c \in Codes |-> 0]
    /\ invite_data = EmptyInviteData
    /\ handlers = [m \in Users |-> IdleHandler]

\* "Sync Invites": cache_guild_invites(interaction.guild)
SyncInvites ==
    /\ invite_data' = cache_guild_invites(invite_data, invite_uses)
    /\ last' = Other
    /\ UNCHANGED <<in_guild, joined, invite_uses, handlers, giveawayVars, slotVars>>

\* on_member_join(member) up to the answer to
\* `current_invites = await member.guild.invites()`
FetchInvites(m) ==
    /\ m \in joined
    /\ handlers[m].pc = "idle"
    /\ joined' = joined \ {m}
    /\ premium_slots' = [premium_slots EXCEPT ![m] =
            update_user_slots(@, calculate_user_slots(member_roles[m], bot_config))]
    /\ handlers' = [handlers EXCEPT ![m] = [pc |-> "fetched", uses |-> invite_uses]]
    /\ last' = Other
    /\ UNCHANGED <<in_guild, invite_uses, invite_data, member_roles, creating, bot_config>>
    /\ UNCHANGED giveawayVars

\* the handler of member m goes on with its list of invites: it finds invite c used
\* ("none": no invite) and runs to its end, to its exception or, after an attributed
\* join, to `await update_member_invite_roles(inviter)` and the welcome message
HandleJoin(m, c) ==
    /\ handlers[m].pc = "fetched"
    /\ IF UsedCandidates(invite_data, handlers[m].uses) = {}
       THEN c = "none"
       ELSE c \in UsedCandidates(invite_data, handlers[m].uses)
    /\ invite_data' = IF c = "none" THEN refresh_cache(invite_data, handlers[m].uses)
                       ELSE record_join(invite_data, m, c, handlers[m].uses, now)
    /\ handlers' = [handlers EXCEPT ![m] =
                       IF c = "none" \/ join_raises(invite_data, c) THEN IdleHandler
                       ELSE [@ EXCEPT !.pc = "awaiting"]]
    /\ last' = Other
    /\ UNCHANGED <<in_guild, joined, invite_uses, giveawayVars, slotVars>>

\* the awaits after an attributed join are over: "Cache new invite states" with the
\* list of invites the handler fetched when it began
RefreshCache(m) ==
    /\ handlers[m].pc = "awaiting"
    /\ invite_data' = refresh_cache(invite_data, handlers[m].uses)
    /\ handlers' = [handlers EXCEPT ![m] = IdleHandler]
    /\ last' = Other
    /\ UNCHANGED <<in_guild, joined, invite_uses, giveawayVars, slotVars>>

NextCache ==
    \/ \E m \in Users, c \in Codes : MemberJoin(m, c)
    \/ SyncInvites
    \/ \E m \in Users : FetchInvites(m)
    \/ \E m \in Users, c \in Codes \cup {"none"} : HandleJoin(m, c)
    \/ \E m \in Users : RefreshCache(m)
    \/ \E m \in Users : OnMemberRemove(m)

SpecCache == InitCache /\ [][NextCache]_vars

\* ================================================================ claims
Giveaway(v) == views[v]

\* C1: a call of end_giveaway on a giveaway that is not active (it has run before)
\* changes nothing: no new draw, same winners_list, status and participants.
C1_EndTwiceIsNoOp ==
    [][(last'.op = "end" /\ last'.res = "already_ended") => views' = views]_vars

\* C1 witness: end_giveaway has just been called on a giveaway that was already
\* ended with winners drawn.
C1_Witness ==
    /\ last = [op |-> "end", res |-> "already_ended"]
    /\ \E v \in RegisteredViews :
         Giveaway(v).status = "ended" /\ Giveaway(v).winners_list # <<>>

\* C2: in every state, for every giveaway of giveaways_data, winners_list has no
\* repeated user and at most min(winners, number of participants) entries.
C2_NoDuplicateWinners ==
    \A v \in RegisteredViews :
        /\ NoDup(Giveaway(v).winners_list)
        /\ Len(Giveaway(v).winners_list) <= winner_count(Giveaway(v))

\* C3: a step that ends an active giveaway with at least one participant and stores
\* a winners_list (the announcement channel exists) stores exactly
\* min(winners, number of participants) distinct winners.
C3_ExactlyKWinners ==
    [][\A v \in Views :
          ( /\ Giveaway(v).status = "active"
            /\ Giveaway(v)'.status = "ended"
            /\ Participants(Giveaway(v)) # {}
            /\ Giveaway(v)'.winners_list # <<>> )
          => /\ Len(Giveaway(v)'.winners_list) = winner_count(Giveaway(v))
             /\ NoDup(Giveaway(v)'.winners_list)]_vars

\* C4: a press of the join button of a giveaway whose status is "ended" is answered
\* "no longer active" and leaves every dict (participants included) unchanged,
\* whatever the clock says. Stated by contraposition: a join step that answers
\* anything else, or changes a dict, is not a join of an ended giveaway.
C4_JoinAfterEndFails ==
    [][(last'.op = "join" /\ ~(last'.res = "NotActive" /\ views' = views)) =>
          \A gid \in RegisteredIds :
             Giveaway(DictOf(gid)).status = "ended" =>
                \A u \in Users, roles \in SUBSET Roles, level \in Levels :
                   ~Join(gid, u, roles, level)]_vars

\* C4 witness: a join has just been rejected as not active on an ended giveaway.
C4_Witness ==
    /\ last = [op |-> "join", res |-> "NotActive"]
    /\ \E v \in RegisteredViews : Giveaway(v).status = "ended"

\* C5: joins and ends of one giveaway behave as if run one after the other:
\* (a) a step that writes winners_list is the step that turns the status from
\*     "active" to "ended" (the status is the first visible change of end_giveaway);
\* (b) while the status is "ended", no step adds or re-weights a participant;
\* (c) the winners stored when the status changes are participants of that moment.
C5_JoinEndSequential ==
    [][\A v \in Views :
          /\ (Giveaway(v)'.winners_list # Giveaway(v).winners_list
                 => Giveaway(v).status = "active" /\ Giveaway(v)'.status = "ended")
          /\ (Giveaway(v).status = "ended"
                 => Giveaway(v)'.participants = Giveaway(v).participants)
          /\ (Giveaway(v).status = "active" /\ Giveaway(v)'.status = "ended"
                 => /\ Giveaway(v)'.participants = Giveaway(v).participants
                    /\ Range(Giveaway(v)'.winners_list) \subseteq Participants(Giveaway(v)))
      ]_vars

\* C5 witness: while end_giveaway is suspended in its announcement, with winners
\* drawn, a join arrived and was turned away.
C5_Witness ==
    /\ sweep.pc = "send"
    /\ last = [op |-> "join", res |-> "NotActive"]
    /\ \E v \in RegisteredViews :
         Giveaway(v).status = "ended" /\ Giveaway(v).winners_list # <<>>

\* C6: a press of the join button of a giveaway that is still "active" although its
\* end_time has passed is answered "no longer active" and changes no dict.
C6_JoinAfterEndTimeFails ==
    [][last'.op = "join" =>
          \A gid \in RegisteredIds :
             (Giveaway(DictOf(gid)).status = "active" /\ now >= Giveaway(DictOf(gid)).end_time) =>
                \A u \in Users, roles \in SUBSET Roles, level \in Levels :
                   Join(gid, u, roles, level)
                   => (last'.res = "NotActive" /\ views' = views)]_vars

\* C7: after every step, a giveaway whose status is not "ended" has an empty
\* winners_list, and no step changes a winners_list that has been set.
C7_WinnersOnlyWhenEnded ==
    [][\A v \in RegisteredViews' :
          /\ (Giveaway(v)'.status # "ended" => Giveaway(v)'.winners_list = <<>>)
          /\ (Giveaway(v).winners_list # <<>>
                 => Giveaway(v)'.winners_list = Giveaway(v).winners_list)]_vars

\* C8: under a fair sweep, every giveaway of giveaways_data that is "active" with
\* end_time <= now is eventually "ended".
C8_DueGiveawayEnds ==
    \A v \in Views :
        (v \in RegisteredViews /\ Due(Giveaway(v), now)) ~> (Giveaway(v).status = "ended")

\* C9: a step that ends an active giveaway with at least one participant leaves
\* winners_list holding the winners of a draw, whatever happens to the announcement.
C9_WinnersDespiteSideEffects ==
    [][\A v \in Views :
          ( /\ Giveaway(v).status = "active"
            /\ Giveaway(v)'.status = "ended"
            /\ Participants(Giveaway(v)) # {} )
          => \E draw \in Draws(Giveaway(v)) :
                Giveaway(v)'.winners_list = unique_winners(Giveaway(v), draw)]_vars

\* C10: the status of a giveaway of giveaways_data never goes back: an "ended"
\* giveaway stays "ended", an "active" one never becomes "creating".
C10_StatusForward ==
    [][\A v \in RegisteredViews :
          /\ (Giveaway(v).status = "ended" => Giveaway(v)'.status = "ended")
          /\ (Giveaway(v).status = "active" => Giveaway(v)'.status # "creating")]_vars

\* C11: joins by different users lose no update: a successful press of the join
\* button by u leaves the entry of every other user as it was, and a u who was not
\* a participant is entered with the weight of the first extra-entry rule u's roles
\* match, or 1.
C11_JoinsLoseNoUpdate ==
    [][(last'.op = "join" /\ last'.res = "Joined") =>
          \A gid \in RegisteredIds, u \in Users, roles \in SUBSET AllRoles, level \in Levels :
             Join(gid, u, roles, level) =>
                LET g  == Giveaway(DictOf(gid))
                    g2 == Giveaway(DictOf(gid))'
                    m  == {i \in 1..Len(g.extra_entry_roles) :
                              g.extra_entry_roles[i].role_id \in roles}
                IN  /\ \A w \in Users \ {u} : g2.participants[w] = g.participants[w]
                    /\ g.participants[u] = 0 =>
                          g2.participants[u] =
                             (IF m = {} THEN 1
                              ELSE g.extra_entry_roles[CHOOSE i \in m : \A j \in m : i <= j].entries)
      ]_vars

\* C11 witness: two users have joined the same giveaway, one after the other, with
\* different weights.
C11_Witness ==
    /\ last = [op |-> "join", res |-> "Joined"]
    /\ \E v \in RegisteredViews :
         /\ Giveaway(v).participants["A"] > 0
         /\ Giveaway(v).participants["B"] > 0
         /\ Giveaway(v).participants["A"] # Giveaway(v).participants["B"]

\* C12: a press of the join button of an active giveaway is rejected exactly when
\* (required_roles is non-empty and the user holds none of them) or (required_level
\* > 0, the user's level is below it and the user holds no bypass role); a rejected
\* press changes no dict, any other press leaves the user entered.
C12_JoinRejectedExactlyWhen ==
    [][last'.op = "join" =>
          \A gid \in RegisteredIds, u \in Users, roles \in SUBSET AllRoles, level \in Levels :
             (Giveaway(DictOf(gid)).status = "active" /\ Join(gid, u, roles, level)) =>
                LET g   == Giveaway(DictOf(gid))
                    rej == \/ g.required_roles # {} /\ g.required_roles \cap roles = {}
                           \/ /\ g.required_level > 0
                              /\ level < g.required_level
                              /\ g.bypass_roles \cap roles = {}
                IN  /\ rej <=> last'.res \in {"MissingRequiredRole", "LevelTooLow"}
                    /\ rej => views' = views
                    /\ ~rej => Giveaway(DictOf(gid))'.participants[u] > 0
      ]_vars

\* C12 witness: a user below the required level was turned away from an active
\* giveaway that has bypass roles.
C12_Witness ==
    /\ last = [op |-> "join", res |-> "LevelTooLow"]
    /\ \E v \in RegisteredViews :
         /\ Giveaway(v).status = "active"
         /\ Giveaway(v).bypass_roles # {}
         /\ Giveaway(v).required_roles # {}

\* the counters of a member's invite record as /invites reads them
TotalInvites(x) == invite_data.members[x].total_invites

LeftInvites(x) == invite_data.members[x].left_invites

\* C13: in every state, used_slots of every member is at most total_slots.
C13_UsedWithinTotal ==
    \A u \in Users : premium_slots[u].used_slots <= premium_slots[u].total_slots

\* C14: after every step in which update_user_slots ran for a member (a role change,
\* /viewslots, "Update All Members"), the member's total_slots is the sum of the
\* slots of the slot roles the member holds plus manual_slots, and
\* 0 <= used_slots <= total_slots.
C14_RecomputeTotals ==
    [][last'.op = "update_user_slots" =>
          \A u \in (IF last'.res = "all" THEN Users ELSE {last'.res}) :
             /\ premium_slots'[u].total_slots =
                   Cardinality(member_roles'[u]) * RoleSlots + premium_slots'[u].manual_slots
             /\ 0 <= premium_slots'[u].used_slots
             /\ premium_slots'[u].used_slots <= premium_slots'[u].total_slots]_vars

\* C15: a step that changes manual_slots of a member is an /addslots or a
\* /removeslots for that member; recomputes and auction creations leave it alone.
C15_ManualOnlyByCommands ==
    [][\A u \in Users :
          premium_slots'[u].manual_slots # premium_slots[u].manual_slots =>
             \E amount \in 0..MaxSlots : AddSlots(u, amount) \/ RemoveSlots(u, amount)]_vars

\* C15 witness: update_user_slots has just run for a member who holds a slot role
\* and has manual slots.
C15_Witness ==
    \E u \in Users :
        /\ last = Recomputed(u)
        /\ premium_slots[u].manual_slots > 0
        /\ member_roles[u] # {}

C17_CurrentInvitesNonNegative ==
    \A x \in Users : TotalInvites(x) - LeftInvites(x) >= 0

\* C18: every run of the join handler that finds invite c used, for a member who has
\* no invited_by yet, adds exactly one to total_invites of c's inviter; and no step
\* lowers a total_invites.
C18_TotalCountsEveryJoin ==
    [][/\ \A m \in Users, c \in Codes :
             (OnMemberJoin(m, c) /\ invite_data.members[m].invited_by = "none")
             => TotalInvites(Inviter(c))' = TotalInvites(Inviter(c)) + 1
       /\ \A x \in Users : TotalInvites(x)' >= TotalInvites(x)]_vars

\* C19: a leave of a member whose record names an inviter adds one to that inviter's
\* left_invites and changes nothing else of invite_data; a leave of a member with no
\* recorded inviter leaves invite_data as it was.
C19_LeaveTouchesOneCounter ==
    [][\A m \in Users :
          OnMemberRemove(m) =>
             LET x == invite_data.members[m].invited_by
             IN  IF x = "none" THEN invite_data' = invite_data
                 ELSE invite_data' =
                        [invite_data EXCEPT !.members[x].left_invites = @ + 1]]_vars

\* C19 witness: a member with a recorded inviter has left.
C19_Witness ==
    \E m \in Users :
        /\ m \notin in_guild
        /\ invite_data.members[m].invited_by # "none"
        /\ LeftInvites(invite_data.members[m].invited_by) >= 1

\* C20: in every state, every user of claimed_winners of a giveaway is in its
\* winners_list, and claimed_winners has no repeated user.
C20_ClaimedSubsetOfWinners ==
    \A v \in RegisteredViews :
        /\ Range(Giveaway(v).claimed_winners) \subseteq Range(Giveaway(v).winners_list)
        /\ NoDup(Giveaway(v).claimed_winners)

\* C21: when the join handler finds more than one invite with more uses than cached,
\* it attributes the join to the one invite with the largest increase; when no single
\* invite has the largest increase, no member record changes (no total_invites, no
\* recent_invites, no invitee record).
C21_LargestDeltaOrUnattributed ==
    [][\A m \in Users, c \in Codes \cup {"none"} :
          OnMemberJoin(m, c) =>
             LET cand == UsedCandidates(invite_data, invite_uses)
                 delta(x) == invite_uses[x] - cached_uses(invite_data, x)
                 top == {x \in cand : \A y \in cand : delta(x) >= delta(y)}
             IN  Cardinality(cand) > 1 =>
                    IF Cardinality(top) = 1
                    THEN c \in top
                    ELSE invite_data'.members = invite_data.members]_vars

\* C22: after every run of the join handler, whether the join was attributed or not,
\* the cached uses of every invite of the list the handler fetched are the uses of
\* that list.
C22_HandlerRefreshesCache ==
    [][\A m \in Users, c \in Codes \cup {"none"} :
          OnMemberJoin(m, c) =>
             \A k \in Codes : cached_uses(invite_data', k) = invite_uses[k]]_vars

\* C23: no step lowers the cached uses of an invite code or removes a cached code,
\* whatever the interleaving of "Sync Invites" and of the join handlers.
C23_CacheNeverDecreases ==
    [][\A k \in Codes :
          ~uncached(invite_data, k) =>
             /\ ~uncached(invite_data', k)
             /\ invite_data'.invites[k] >= invite_data.invites[k]]_vars

\* C26: the milestone role computed for an inviter when one of their invitees leaves
\* is the role of the highest threshold that total_invites - left_invites reaches, and
\* none when it reaches no threshold.
C26_MilestoneFromCurrentInvites ==
    [][\A m \in Users :
          (OnMemberRemove(m) /\ invite_data.members[m].invited_by # "none"
             /\ invite_data.members[invite_data.members[m].invited_by].known) =>
             LET x == invite_data.members[m].invited_by
                 current == TotalInvites(x)' - LeftInvites(x)'
                 met == {r \in InviteRoles : r.threshold <= current}
             IN  update_member_invite_roles(invite_data', x)
                    = IF met = {} THEN "none"
                      ELSE (CHOOSE r \in met : \A q \in met : q.threshold <= r.threshold).role_id]_vars

\* C29: a join handler that finds used an invite code that is no key of the cache (and
\* invite_data has no "members" yet) counts the join for that invite's inviter, and
\* does not end before the code is cached with the uses of the list it fetched.
C29_UncachedCodeAttributed ==
    [][\A m \in Users, c \in Codes :
          (HandleJoin(m, c) /\ uncached(invite_data, c) /\ ~invite_data.has_members) =>
             /\ TotalInvites(Inviter(c))' = TotalInvites(Inviter(c)) + 1
             /\ handlers'[m].pc = "idle" =>
                   /\ ~uncached(invite_data', c)
                   /\ invite_data'.invites[c] = handlers[m].uses[c]]_vars

\* C24: a user who joins a giveaway for the first time is stored with the highest
\* entries value among the extra-entry rules whose role the user holds, and with 1
\* when the user holds none of those roles, whatever the order of the rules.
C24_HighestMatchingRule ==
    [][(last'.op = "join" /\ last'.res = "Joined") =>
          \A gid \in RegisteredIds, u \in Users, roles \in SUBSET AllRoles :
             (Join(gid, u, roles, 0) /\ views[DictOf(gid)].participants[u] = 0) =>
                LET g == views[DictOf(gid)]
                    values == {g.extra_entry_roles[i].entries : i \in MatchingRules(g, roles)}
                IN  views'[DictOf(gid)].participants[u]
                       = IF values = {} THEN 1
                         ELSE CHOOSE e \in values : \A f \in values : f <= e]_vars

\* C25: a successful join by a user who is a participant already stores the weight
\* of the roles the user holds now: the value of a rule whose role the user holds
\* (never a sum with the stored weight), and 1 when the user holds no such role.
C25_RejoinOverwritesWeight ==
    [][(last'.op = "join" /\ last'.res = "Joined") =>
          \A gid \in RegisteredIds, u \in Users, roles \in SUBSET AllRoles :
             (Join(gid, u, roles, 0) /\ views[DictOf(gid)].participants[u] > 0) =>
                LET g == views[DictOf(gid)]
                    values == {g.extra_entry_roles[i].entries : i \in MatchingRules(g, roles)}
                IN  views'[DictOf(gid)].participants[u]
                       \in (IF values = {} THEN {1} ELSE values)]_vars

\* C28: in every state, every user in a giveaway's winners_list is a key of that
\* giveaway's participants.
C28_WinnersAreParticipants ==
    \A v \in Views : Range(Giveaway(v).winners_list) \subseteq Participants(Giveaway(v))

\* C28 witness: a giveaway with extra entries has ended with a winner while a member
\* of the guild never joined it.
C28_Witness ==
    \E v \in Views :
        /\ Giveaway(v).status = "ended"
        /\ Giveaway(v).winners_list # <<>>
        /\ \E u \in Users : Giveaway(v).participants[u] > 1
        /\ Participants(Giveaway(v)) # Users

\* C27: a join or a call of end_giveaway for one giveaway id leaves the participants,
\* the status and the winners_list of every giveaway registered under another id
\* as they were.
C27_GiveawaysIndependent ==
    [][last'.op \in {"join", "end"} =>
          \A gid \in RegisteredIds, other \in RegisteredIds :
             (/\ other # gid
              /\ \/ \E u \in Users, roles \in SUBSET Roles, level \in Levels :
                       Join(gid, u, roles, level)
                 \/ \E chanOk \in BOOLEAN : EndCall(gid, chanOk))
             => /\ views'[DictOf(other)].participants = views[DictOf(other)].participants
                /\ views'[DictOf(other)].status = views[DictOf(other)].status
                /\ views'[DictOf(other)].winners_list
                      = views[DictOf(other)].winners_list]_vars

\* C30: after /addslots or /removeslots with a positive amount for a member,
\* total_slots is the slots of the slot roles the member holds plus manual_slots,
\* manual_slots is not negative, /removeslots has taken off min(amount, manual_slots)
\* (nothing when it was 0), and used_slots is at most total_slots.
C30_SlotCommandsConsistent ==
    [][\A u \in Users, amount \in 1..MaxSlots :
          (AddSlots(u, amount) \/ RemoveSlots(u, amount)) =>
             /\ premium_slots'[u].total_slots =
                   Cardinality(member_roles[u]) * RoleSlots + premium_slots'[u].manual_slots
             /\ premium_slots'[u].manual_slots >= 0
             /\ RemoveSlots(u, amount) =>
                   premium_slots'[u].manual_slots
                      = premium_slots[u].manual_slots
                           - Min(amount, premium_slots[u].manual_slots)
             /\ premium_slots'[u].used_slots <= premium_slots'[u].total_slots]_vars
====
